---- MODULE Spec2Model ----
(***************************************************************************)
(* Model of weather.py: the two tools get_alerts and get_forecast, the     *)
(* fetch helper make_nws_request and the formatter format_alert.           *)
(*                                                                         *)
(* A tool invocation is a coroutine: it runs up to its next await of       *)
(* make_nws_request, is suspended while the request is in flight, and is   *)
(* resumed with the outcome of the request.  The peer is not trusted: a    *)
(* request may end in any transport failure or with any decoded JSON value.*)
(*                                                                         *)
(* Python values are tagged records.  A str is a sequence of pieces whose  *)
(* concatenation is its text: a str decoded from JSON is split into single *)
(* characters, a URL the program builds keeps the pieces it was built from *)
(* (only its text is ever used).  A dict is its sequence of key/value      *)
(* pairs in insertion order.  Results and log lines are TLA+ strings.      *)
(***************************************************************************)
EXTENDS Integers, Sequences, FiniteSets, TLC

VARIABLES pc, tool, args, url, result, exc, requests, responses, log

vars == <<pc, tool, args, url, result, exc, requests, responses, log>>

----------------------------------------------------------------------------
(* Bounds of the model *)

\* longest state string offered to get_alerts
MaxStateLen == 3
\* longest list of entries (features, periods) in a response of Spec
MaxEntries == 3
\* longest "periods" list in a forecast response of SpecPeriods
MaxPeriods == 6
\* concurrent invocations in SpecConc
NumInvocations == 2

----------------------------------------------------------------------------
(* Python values *)

None == [t |-> "null"]
PyBool(b) == [t |-> "bool", b |-> b]
PyInt(n) == [t |-> "num", n |-> n]
PyStr(chars) == [t |-> "str", s |-> chars]
PyList(xs) == [t |-> "list", items |-> xs]
PyDict(pairs) == [t |-> "dict", d |-> pairs]
KV(k, v) == [k |-> k, v |-> v]

\* a float, in tenths; nan and the infinities are floats too
Float(tenths) == [f |-> "finite", v |-> tenths]
NaN == [f |-> "nan", v |-> 0]
PosInf == [f |-> "inf", v |-> 1]

\* a <= b on floats: every comparison with nan is false
FloatLe(a, b) ==
    IF a.f = "nan" \/ b.f = "nan" THEN FALSE
    ELSE IF a.f = "inf" THEN (a.v < 0 \/ (b.f = "inf" /\ b.v > 0))
    ELSE IF b.f = "inf" THEN b.v > 0
    ELSE a.v <= b.v

Abs(n) == IF n < 0 THEN -n ELSE n

\* str(x) of a float with one decimal digit, as an f-string renders it
FloatStr(x) ==
    IF x.f = "nan" THEN "nan"
    ELSE IF x.f = "inf" THEN (IF x.v < 0 THEN "-inf" ELSE "inf")
    ELSE (IF x.v < 0 THEN "-" ELSE "") \o ToString(Abs(x.v) \div 10)
             \o "." \o ToString(Abs(x.v) % 10)

\* the text of a str
RECURSIVE Text(_)
Text(chars) == IF chars = <<>> THEN "" ELSE Head(chars) \o Text(Tail(chars))

\* str(v), as an f-string renders a scalar JSON value
Str(v) ==
    CASE v.t = "str" -> Text(v.s)
      [] v.t = "num" -> ToString(v.n)
      [] v.t = "null" -> "None"
      [] v.t = "bool" -> IF v.b THEN "True" ELSE "False"

\* bool(v)
Truthy(v) ==
    CASE v.t = "null" -> FALSE
      [] v.t = "bool" -> v.b
      [] v.t = "num" -> v.n # 0
      [] v.t = "str" -> v.s # <<>>
      [] v.t = "list" -> v.items # <<>>
      [] v.t = "dict" -> v.d # <<>>

\* the characters of the key literals the program tests with "in"
KeyChars(key) ==
    CASE key = "features" -> <<"f", "e", "a", "t", "u", "r", "e", "s">>
      [] key = "properties" -> <<"p", "r", "o", "p", "e", "r", "t", "i", "e", "s">>
      [] key = "forecast" -> <<"f", "o", "r", "e", "c", "a", "s", "t">>
      [] key = "periods" -> <<"p", "e", "r", "i", "o", "d", "s">>

IsSubstring(sub, s) ==
    \E k \in 0..(Len(s) - Len(sub)) : SubSeq(s, k + 1, k + Len(sub)) = sub

Keys(v) == {v.d[k].k : k \in DOMAIN v.d}

\* "key in v" raises TypeError unless v is a container
IsContainer(v) == v.t \in {"str", "list", "dict"}

\* key in v, for a container v
Contains(v, key) ==
    CASE v.t = "dict" -> key \in Keys(v)
      [] v.t = "list" -> \E k \in DOMAIN v.items : v.items[k] = PyStr(KeyChars(key))
      [] v.t = "str" -> IsSubstring(KeyChars(key), v.s)

\* v[key] for a dict v that has the key
Get(v, key) == v.d[CHOOSE k \in DOMAIN v.d : v.d[k].k = key].v

\* the exception v[key] raises for a str key, "none" when it raises nothing
SubscriptError(v, key) ==
    IF v.t = "dict" THEN (IF key \in Keys(v) THEN "none" ELSE "KeyError")
    ELSE "TypeError"

\* iter(v) raises TypeError unless v is iterable
IsIterable(v) == v.t \in {"str", "list", "dict"}

\* the elements a for loop over v visits: list items, characters, dict keys
\* (a key is a str; it is kept in one piece, its only use is to be subscripted)
Elements(v) ==
    CASE v.t = "list" -> v.items
      [] v.t = "str" -> [k \in DOMAIN v.s |-> PyStr(<<v.s[k]>>)]
      [] v.t = "dict" -> [k \in DOMAIN v.d |-> PyStr(<<v.d[k].k>>)]

----------------------------------------------------------------------------
(* weather.py *)

NWS_API_BASE == "https://api.weather.gov"

INVALID_STATE == "Invalid state code. Please provide a two-letter US state code."
UNABLE_ALERTS == "Unable to fetch alerts or no alerts found."
NO_ALERTS == "No active alerts for this state."
INVALID_COORDINATES == "Invalid latitude or longitude."
UNABLE_POINTS == "Unable to fetch forecast data for this location."
UNABLE_FORECAST == "Unable to fetch detailed forecast."
SEPARATOR == "\n---\n"

\* what a run of a coroutine up to its next suspension ends in: a returned
\* text, a raised exception, or an awaited make_nws_request(url)
Return(text) == [kind |-> "return", text |-> text, exc |-> "none", url |-> None]
Raise(e) == [kind |-> "raise", text |-> "", exc |-> e, url |-> None]
Await(u) == [kind |-> "await", text |-> "", exc |-> "none", url |-> u]

\* the characters of the model: c.isalpha() and c.upper()
Letters == {"c", "A", "C"}
UpperChar(c) == IF c = "c" THEN "C" ELSE c

\* s.isalpha(): every character alphabetic, and at least one character
StrIsAlpha(chars) == chars # <<>> /\ \A k \in DOMAIN chars : chars[k] \in Letters

\* s.upper()
StrUpper(chars) == [k \in DOMAIN chars |-> UpperChar(chars[k])]

\* sep.join(texts)
RECURSIVE Join(_, _)
Join(sep, texts) ==
    IF texts = <<>> THEN ""
    ELSE IF Len(texts) = 1 THEN texts[1]
    ELSE texts[1] \o sep \o Join(sep, Tail(texts))

\* a list comprehension whose element expressions end as outs: the first
\* exception raised, else the joined texts
JoinOutcomes(outs) ==
    IF \E k \in DOMAIN outs : outs[k].kind = "raise"
    THEN outs[CHOOSE k \in DOMAIN outs :
                 /\ outs[k].kind = "raise"
                 /\ \A j \in 1..(k - 1) : outs[j].kind # "raise"]
    ELSE Return(Join(SEPARATOR, [k \in DOMAIN outs |-> outs[k].text]))

\* make_nws_request without raise_for_status: an error page's body is decoded
MakeNwsRequestAnyStatus(u, r) ==
    IF u.t # "str" THEN None
    ELSE IF r.kind \in {"ok", "status"} THEN r.body
    ELSE None

\* make_nws_request: what the awaited call returns, given the request's
\* outcome r.  A url that is no str makes client.get raise inside the try.
MakeNwsRequest(u, r) ==
    IF u.t # "str" THEN None
    ELSE IF r.kind = "ok" THEN r.body
    ELSE None

\* make_nws_request logs an error exactly when an exception was caught
Caught(u, r) == u.t # "str" \/ r.kind # "ok"

LogLine(u, r) ==
    "Error fetching " \o Str(u) \o ": "
        \o (IF u.t # "str" THEN "TypeError" ELSE r.kind)

\* props.get(key, default), rendered in the f-string
GetOr(props, key, default) ==
    IF key \in Keys(props) THEN Str(Get(props, key)) ELSE default

FormatAlert(props) ==
    "Event: " \o GetOr(props, "event", "Unknown") \o "\n"
    \o "Area: " \o GetOr(props, "areaDesc", "Unknown") \o "\n"
    \o "Severity: " \o GetOr(props, "severity", "Unknown") \o "\n"
    \o "Description: "
    \o GetOr(props, "description", "No description available") \o "\n"
    \o "Instructions: "
    \o GetOr(props, "instruction", "No specific instructions provided") \o "\n"

\* format_alert(feature["properties"]) for one element of the comprehension
AlertBlock(feature) ==
    IF SubscriptError(feature, "properties") # "none"
    THEN Raise(SubscriptError(feature, "properties"))
    ELSE IF Get(feature, "properties").t # "dict" THEN Raise("AttributeError")
    ELSE Return(FormatAlert(Get(feature, "properties")))

\* the validation without its isalpha test
ValidStateCodeAnyChars(state) == state.t = "str" /\ Len(state.s) = 2

ValidStateCode(state) ==
    state.t = "str" /\ Len(state.s) = 2 /\ StrIsAlpha(state.s)

AlertsUrl(state) ==
    PyStr(<<NWS_API_BASE, "/alerts/active/area/">> \o StrUpper(state.s))

\* get_alerts up to its await
GetAlertsCall(state) ==
    IF ~ValidStateCode(state) THEN Return(INVALID_STATE)
    ELSE Await(AlertsUrl(state))

\* get_alerts from its await on, without the test for an empty list
GetAlertsResumeNoEmptyTest(data) ==
    IF ~Truthy(data) THEN Return(UNABLE_ALERTS)
    ELSE IF ~IsContainer(data) THEN Raise("TypeError")
    ELSE IF ~Contains(data, "features") THEN Return(UNABLE_ALERTS)
    ELSE IF SubscriptError(data, "features") # "none"
    THEN Raise(SubscriptError(data, "features"))
    ELSE IF ~IsIterable(Get(data, "features")) THEN Raise("TypeError")
    ELSE LET features == Elements(Get(data, "features"))
         IN JoinOutcomes([k \in DOMAIN features |-> AlertBlock(features[k])])

\* get_alerts from its await on, data being what make_nws_request returned
GetAlertsResume(data) ==
    IF ~Truthy(data) THEN Return(UNABLE_ALERTS)
    ELSE IF ~IsContainer(data) THEN Raise("TypeError")
    ELSE IF ~Contains(data, "features") THEN Return(UNABLE_ALERTS)
    ELSE IF SubscriptError(data, "features") # "none"
    THEN Raise(SubscriptError(data, "features"))
    ELSE IF ~Truthy(Get(data, "features")) THEN Return(NO_ALERTS)
    ELSE IF ~IsIterable(Get(data, "features")) THEN Raise("TypeError")
    ELSE LET features == Elements(Get(data, "features"))
         IN JoinOutcomes([k \in DOMAIN features |-> AlertBlock(features[k])])

\* the slice bound of periods[:5]
PERIOD_LIMIT == 5

\* the exception v[:5] raises, "none" when it raises nothing (a dict raises
\* TypeError or KeyError, whichever the interpreter's version gives)
SliceError(v) ==
    CASE v.t \in {"list", "str"} -> "none"
      [] v.t = "dict" -> "TypeError/KeyError"
      [] OTHER -> "TypeError"

\* the elements of v, not sliced
AllPeriods(v) == Elements(v)

\* the elements of v[:5], for a list or str v
FirstPeriods(v) ==
    LET all == Elements(v)
    IN SubSeq(all, 1, IF Len(all) < PERIOD_LIMIT THEN Len(all) ELSE PERIOD_LIMIT)

PeriodFields ==
    <<"name", "temperature", "temperatureUnit", "windSpeed", "windDirection",
      "detailedForecast">>

FormatPeriod(period) ==
    Str(Get(period, "name")) \o ":\n"
    \o "Temperature: " \o Str(Get(period, "temperature")) \o "°"
    \o Str(Get(period, "temperatureUnit")) \o "\n"
    \o "Wind: " \o Str(Get(period, "windSpeed")) \o " "
    \o Str(Get(period, "windDirection")) \o "\n"
    \o "Forecast: " \o Str(Get(period, "detailedForecast")) \o "\n"

\* the f-string of one period: its subscripts are evaluated in order
PeriodBlock(period) ==
    IF \E k \in DOMAIN PeriodFields : SubscriptError(period, PeriodFields[k]) # "none"
    THEN Raise(SubscriptError(period, PeriodFields[
            CHOOSE k \in DOMAIN PeriodFields :
                /\ SubscriptError(period, PeriodFields[k]) # "none"
                /\ \A j \in 1..(k - 1) :
                       SubscriptError(period, PeriodFields[j]) = "none"]))
    ELSE Return(FormatPeriod(period))

\* the validation without its longitude test
ValidCoordinatesLatitudeOnly(latitude, longitude) ==
    FloatLe(Float(-900), latitude) /\ FloatLe(latitude, Float(900))

ValidCoordinates(latitude, longitude) ==
    /\ FloatLe(Float(-900), latitude) /\ FloatLe(latitude, Float(900))
    /\ FloatLe(Float(-1800), longitude) /\ FloatLe(longitude, Float(1800))

PointsUrl(latitude, longitude) ==
    PyStr(<<NWS_API_BASE, "/points/", FloatStr(latitude), ",", FloatStr(longitude)>>)

\* get_forecast up to its first await
GetForecastCall(latitude, longitude) ==
    IF ~ValidCoordinates(latitude, longitude) THEN Return(INVALID_COORDINATES)
    ELSE Await(PointsUrl(latitude, longitude))

\* the guard of lines 74 and 78: not data or "properties" not in data or
\* key not in data["properties"]; its value is "true", "false" or the
\* exception its evaluation raises
Unusable(data, key) ==
    IF ~Truthy(data) THEN "true"
    ELSE IF ~IsContainer(data) THEN "TypeError"
    ELSE IF ~Contains(data, "properties") THEN "true"
    ELSE IF SubscriptError(data, "properties") # "none"
    THEN SubscriptError(data, "properties")
    ELSE IF ~IsContainer(Get(data, "properties")) THEN "TypeError"
    ELSE IF ~Contains(Get(data, "properties"), key) THEN "true"
    ELSE "false"

\* get_forecast between its two awaits, falling back on a default endpoint
\* when the lookup gave none
GetForecastAfterPointsFallback(points_data) ==
    LET guard == Unusable(points_data, "forecast")
    IN IF guard = "true"
       THEN Await(PyStr(<<NWS_API_BASE, "/gridpoints/TOP/31,80/forecast">>))
       ELSE IF guard # "false" THEN Raise(guard)
       ELSE IF SubscriptError(Get(points_data, "properties"), "forecast") # "none"
       THEN Raise(SubscriptError(Get(points_data, "properties"), "forecast"))
       ELSE Await(Get(Get(points_data, "properties"), "forecast"))

\* get_forecast between its two awaits
GetForecastAfterPoints(points_data) ==
    LET guard == Unusable(points_data, "forecast")
    IN IF guard = "true" THEN Return(UNABLE_POINTS)
       ELSE IF guard # "false" THEN Raise(guard)
       ELSE IF SubscriptError(Get(points_data, "properties"), "forecast") # "none"
       THEN Raise(SubscriptError(Get(points_data, "properties"), "forecast"))
       ELSE Await(Get(Get(points_data, "properties"), "forecast"))

\* get_forecast from its second await on, reporting as the lookup does
GetForecastAfterForecastSameText(forecast_data) ==
    LET guard == Unusable(forecast_data, "periods")
    IN IF guard = "true" THEN Return(UNABLE_POINTS)
       ELSE IF guard # "false" THEN Raise(guard)
       ELSE IF SubscriptError(Get(forecast_data, "properties"), "periods") # "none"
       THEN Raise(SubscriptError(Get(forecast_data, "properties"), "periods"))
       ELSE LET periods == Get(Get(forecast_data, "properties"), "periods")
            IN IF SliceError(periods) # "none" THEN Raise(SliceError(periods))
               ELSE LET first == FirstPeriods(periods)
                    IN JoinOutcomes([k \in DOMAIN first |-> PeriodBlock(first[k])])

\* get_forecast from its second await on
GetForecastAfterForecast(forecast_data) ==
    LET guard == Unusable(forecast_data, "periods")
    IN IF guard = "true" THEN Return(UNABLE_FORECAST)
       ELSE IF guard # "false" THEN Raise(guard)
       ELSE IF SubscriptError(Get(forecast_data, "properties"), "periods") # "none"
       THEN Raise(SubscriptError(Get(forecast_data, "properties"), "periods"))
       ELSE LET periods == Get(Get(forecast_data, "properties"), "periods")
            IN IF SliceError(periods) # "none" THEN Raise(SliceError(periods))
               ELSE LET first == FirstPeriods(periods)
                    IN JoinOutcomes([k \in DOMAIN first |-> PeriodBlock(first[k])])

----------------------------------------------------------------------------
(* Invocations *)

Invocations == DOMAIN pc

\* url kept in one module-level variable that every call assigns
BindUrlGlobal(i, u) == [j \in DOMAIN url |-> u]

\* the url parameter of make_nws_request is a local of the call
BindUrl(i, u) == [url EXCEPT ![i] = u]

\* invocation i has run up to its next suspension, ending as out
Advance(i, out, awaiting) ==
    /\ pc' = [pc EXCEPT ![i] =
                 CASE out.kind = "await" -> awaiting
                   [] out.kind = "return" -> "returned"
                   [] out.kind = "raise" -> "raised"]
    /\ result' = [result EXCEPT ![i] = out.text]
    /\ exc' = [exc EXCEPT ![i] = out.exc]
    /\ url' = BindUrl(i, out.url)
    /\ requests' = [requests EXCEPT ![i] =
                       IF out.kind = "await" THEN Append(@, out.url) ELSE @]

\* make_nws_request of invocation i ends: the request's outcome is r
Fetched(i, r) ==
    /\ responses' = [responses EXCEPT ![i] = Append(@, r)]
    /\ log' = IF Caught(url[i], r) THEN Append(log, LogLine(url[i], r)) ELSE log

\* the host calls get_alerts(state)
CallGetAlerts(i, state) ==
    /\ pc[i] = "idle"
    /\ tool' = [tool EXCEPT ![i] = "get_alerts"]
    /\ args' = [args EXCEPT ![i] = <<state>>]
    /\ Advance(i, GetAlertsCall(state), "alerts")
    /\ UNCHANGED <<responses, log>>

\* the host calls get_forecast(latitude, longitude)
CallGetForecast(i, latitude, longitude) ==
    /\ pc[i] = "idle"
    /\ tool' = [tool EXCEPT ![i] = "get_forecast"]
    /\ args' = [args EXCEPT ![i] = <<latitude, longitude>>]
    /\ Advance(i, GetForecastCall(latitude, longitude), "points")
    /\ UNCHANGED <<responses, log>>

\* get_alerts resumes from line 54
ResumeAlerts(i, r) ==
    /\ pc[i] = "alerts"
    /\ Fetched(i, r)
    /\ Advance(i, GetAlertsResume(MakeNwsRequest(url[i], r)), "alerts")
    /\ UNCHANGED <<tool, args>>

\* get_forecast resumes from line 73
ResumePoints(i, r) ==
    /\ pc[i] = "points"
    /\ Fetched(i, r)
    /\ Advance(i, GetForecastAfterPoints(MakeNwsRequest(url[i], r)), "forecast")
    /\ UNCHANGED <<tool, args>>

\* get_forecast resumes from line 77
ResumeForecast(i, r) ==
    /\ pc[i] = "forecast"
    /\ Fetched(i, r)
    /\ Advance(i, GetForecastAfterForecast(MakeNwsRequest(url[i], r)), "forecast")
    /\ UNCHANGED <<tool, args>>

InitOf(ids) ==
    /\ pc = [i \in ids |-> "idle"]
    /\ tool = [i \in ids |-> "none"]
    /\ args = [i \in ids |-> <<>>]
    /\ url = [i \in ids |-> None]
    /\ result = [i \in ids |-> ""]
    /\ exc = [i \in ids |-> "none"]
    /\ requests = [i \in ids |-> <<>>]
    /\ responses = [i \in ids |-> <<>>]
    /\ log = <<>>

----------------------------------------------------------------------------
(* Inputs of the host and outcomes of the requests *)

SeqsUpTo(S, n) == UNION {[1..k -> S] : k \in 0..n}

\* a sub-dict: the pairs whose key is in keys, in their order
Restrict(pairs, keys) == PyDict(SelectSeq(pairs, LAMBDA p : p.k \in keys))

StateChars == {"c", "A", "7"}

StateInputs ==
    {PyStr(s) : s \in SeqsUpTo(StateChars, MaxStateLen)}
        \cup {None, PyInt(12), PyList(<<PyStr(<<"c">>), PyStr(<<"A">>)>>)}

Latitudes == {Float(-901), Float(-900), Float(385), Float(900), Float(901), NaN}

Longitudes == {Float(-1801), Float(-1800), Float(1800), Float(1801), PosInf}

AlertPairs ==
    <<KV("event", PyStr(<<"F", "o", "g">>)),
      KV("areaDesc", PyStr(<<"K", "S">>)),
      KV("severity", PyStr(<<"M", "i", "n", "o", "r">>)),
      KV("description", PyStr(<<"d">>)),
      KV("instruction", None)>>

AlertKeys == {AlertPairs[k].k : k \in DOMAIN AlertPairs}

Feature(props) == PyDict(<<KV("id", PyInt(1)), KV("properties", props)>>)

\* features the lists are made of: complete, partial, without properties
ListedFeatures ==
    {Feature(PyDict(AlertPairs)),
     Feature(Restrict(AlertPairs, {"event", "instruction"})),
     PyDict(<<KV("id", PyInt(1))>>)}

AlertsBody(features) == PyDict(<<KV("features", features)>>)

AlertsBodies ==
    {AlertsBody(PyList(fs)) : fs \in SeqsUpTo(ListedFeatures, MaxEntries)}
        \cup {AlertsBody(PyList(<<Feature(Restrict(AlertPairs, ks))>>)) :
                 ks \in SUBSET AlertKeys}
        \cup {AlertsBody(PyList(<<Feature(None)>>)),
              AlertsBody(PyList(<<PyStr(<<"x">>)>>)),
              AlertsBody(None), AlertsBody(PyInt(3)), AlertsBody(PyStr(<<"x">>)),
              AlertsBody(PyDict(<<KV("a", PyInt(1))>>))}

PeriodPairs(name) ==
    <<KV("name", PyStr(name)),
      KV("temperature", PyInt(72)),
      KV("temperatureUnit", PyStr(<<"F">>)),
      KV("windSpeed", PyStr(<<"5", " ", "m", "p", "h">>)),
      KV("windDirection", PyStr(<<"N", "W">>)),
      KV("detailedForecast", PyStr(<<"S", "u", "n">>))>>

PeriodKeys == {PeriodFields[k] : k \in DOMAIN PeriodFields}

\* periods the lists are made of: two complete ones, one without a name
ListedPeriods ==
    {PyDict(PeriodPairs(<<"T", "o", "n", "i", "g", "h", "t">>)),
     PyDict(PeriodPairs(<<"M", "o", "n">>)),
     Restrict(PeriodPairs(<<"T", "u", "e">>), PeriodKeys \ {"name"})}

ForecastBody(periods) ==
    PyDict(<<KV("properties", PyDict(<<KV("periods", periods)>>))>>)

ForecastBodies ==
    {ForecastBody(PyList(ps)) : ps \in SeqsUpTo(ListedPeriods, MaxEntries)}
        \cup {ForecastBody(PyList(<<Restrict(PeriodPairs(<<"W", "e", "d">>), ks)>>)) :
                 ks \in SUBSET PeriodKeys}
        \cup {ForecastBody(None), ForecastBody(PyInt(0)), ForecastBody(PyDict(<<>>)),
              ForecastBody(PyStr(<<"a", "b">>)), ForecastBody(PyList(<<None>>))}

PointsBody(forecast) ==
    PyDict(<<KV("properties", PyDict(<<KV("forecast", forecast)>>))>>)

\* the text of PointsUrl(Float(900), Float(1800)), as a server may echo it
EchoedPointsUrl ==
    PyStr(<<"h", "t", "t", "p", "s", ":", "/", "/", "a", "p", "i", ".",
            "w", "e", "a", "t", "h", "e", "r", ".", "g", "o", "v", "/",
            "p", "o", "i", "n", "t", "s", "/", "9", "0", ".", "0", ",",
            "1", "8", "0", ".", "0">>)

PointsBodies ==
    {PointsBody(PyStr(<<"u", "1">>)), PointsBody(EchoedPointsUrl),
     PointsBody(None), PointsBody(PyInt(5)),
     PyDict(<<KV("properties", PyDict(<<>>))>>),
     PyDict(<<KV("properties", None)>>),
     PyDict(<<KV("properties", PyStr(KeyChars("forecast") \o KeyChars("periods")))>>),
     PyDict(<<KV("properties", PyList(<<PyStr(KeyChars("forecast")),
                                        PyStr(KeyChars("periods"))>>))>>)}

\* decoded bodies that are no JSON object, or an object without the fields
OddBodies ==
    {None, PyBool(TRUE), PyBool(FALSE), PyInt(0), PyInt(7), PyStr(<<>>),
     PyStr(KeyChars("features")), PyStr(KeyChars("properties")),
     PyList(<<>>), PyList(<<PyStr(KeyChars("features"))>>),
     PyList(<<PyStr(KeyChars("properties"))>>), PyList(<<PyInt(1)>>),
     PyDict(<<>>), PyDict(<<KV("title", PyStr(<<"x">>))>>)}

Ok(body) == [kind |-> "ok", body |-> body]
Failed(kind, body) == [kind |-> kind, body |-> body]

\* how client.get, raise_for_status and response.json may raise
FailureKinds == {"transport", "timeout", "status", "unparsable"}

Failures ==
    {Failed(k, None) : k \in FailureKinds}
        \cup {Failed("status", AlertsBody(PyList(<<Feature(PyDict(AlertPairs))>>)))}

Responses ==
    Failures \cup {Ok(b) : b \in AlertsBodies \cup PointsBodies
                                   \cup ForecastBodies \cup OddBodies}

Init == InitOf({1})

Next ==
    \/ \E i \in Invocations, state \in StateInputs : CallGetAlerts(i, state)
    \/ \E i \in Invocations, latitude \in Latitudes, longitude \in Longitudes :
          CallGetForecast(i, latitude, longitude)
    \/ \E i \in Invocations, r \in Responses : ResumeAlerts(i, r)
    \/ \E i \in Invocations, r \in Responses : ResumePoints(i, r)
    \/ \E i \in Invocations, r \in Responses : ResumeForecast(i, r)

Spec == Init /\ [][Next]_vars

----------------------------------------------------------------------------
(* get_forecast on forecasts of up to MaxPeriods periods *)

LongForecasts ==
    {Ok(ForecastBody(PyList(ps))) : ps \in SeqsUpTo(ListedPeriods, MaxPeriods)}

NextPeriods ==
    \/ \E i \in Invocations : CallGetForecast(i, Float(385), Float(-975))
    \/ \E i \in Invocations : ResumePoints(i, Ok(PointsBody(PyStr(<<"u", "1">>))))
    \/ \E i \in Invocations, r \in LongForecasts : ResumeForecast(i, r)

SpecPeriods == Init /\ [][NextPeriods]_vars

----------------------------------------------------------------------------
(* Several invocations, suspended and resumed in any order *)

ConcStates == {PyStr(<<"c", "A">>), PyStr(<<"c", "7">>)}

ConcCoordinates == {<<Float(900), Float(1800)>>, <<Float(901), Float(1800)>>}

ConcResponses ==
    {Failed("timeout", None), Failed("unparsable", None),
     Ok(AlertsBody(PyList(<<Feature(PyDict(AlertPairs))>>))),
     Failed("status", AlertsBody(PyList(<<Feature(PyDict(AlertPairs))>>))),
     Ok(AlertsBody(PyList(<<>>))),
     Ok(AlertsBody(PyList(<<PyDict(<<KV("id", PyInt(1))>>)>>))),
     Ok(None),
     Ok(PointsBody(PyStr(<<"u", "1">>))),
     Ok(PointsBody(PyInt(5))),
     Ok(ForecastBody(PyList(<<PyDict(PeriodPairs(<<"M", "o", "n">>))>>)))}

InitConc == InitOf(1..NumInvocations)

NextConc ==
    \/ \E i \in Invocations, state \in ConcStates : CallGetAlerts(i, state)
    \/ \E i \in Invocations, c \in ConcCoordinates : CallGetForecast(i, c[1], c[2])
    \/ \E i \in Invocations, r \in ConcResponses : ResumeAlerts(i, r)
    \/ \E i \in Invocations, r \in ConcResponses : ResumePoints(i, r)
    \/ \E i \in Invocations, r \in ConcResponses : ResumeForecast(i, r)

SpecConc == InitConc /\ [][NextConc]_vars

----------------------------------------------------------------------------
(* Properties *)

Returned(i) == pc[i] = "returned"
Ended(i) == pc[i] \in {"returned", "raised"}
HasKey(v, key) == v.t = "dict" /\ key \in Keys(v)

\* a string of exactly two alphabetic characters
TwoLetters(v) ==
    /\ v.t = "str"
    /\ Len(v.s) = 2
    /\ v.s[1] \in Letters
    /\ v.s[2] \in Letters

\* C1: get_alerts on anything but a string of exactly two alphabetic
\* characters returns the invalid-state-code message, and the invocation
\* never calls make_nws_request.
C1_InvalidStateRejected ==
    \A i \in Invocations :
        (tool[i] = "get_alerts" /\ ~TwoLetters(args[i][1]))
            => /\ Returned(i)
               /\ result[i] = INVALID_STATE
               /\ requests[i] = <<>>
               /\ responses[i] = <<>>

\* C1: a two-character string with a digit in it has been rejected
C1_Witness ==
    \E i \in Invocations :
        /\ tool[i] = "get_alerts"
        /\ args[i][1] = PyStr(<<"c", "7">>)
        /\ Returned(i)
        /\ result[i] = INVALID_STATE

\* latitude in [-90, 90] and longitude in [-180, 180], in tenths
InRange(latitude, longitude) ==
    /\ latitude.f = "finite" /\ latitude.v >= -900 /\ latitude.v =< 900
    /\ longitude.f = "finite" /\ longitude.v >= -1800 /\ longitude.v =< 1800

OnBounds(latitude, longitude) ==
    /\ latitude \in {Float(-900), Float(900)}
    /\ longitude \in {Float(-1800), Float(1800)}

\* C2: get_forecast on a latitude outside [-90, 90] or a longitude outside
\* [-180, 180] returns the invalid-coordinates message and never calls
\* make_nws_request; the bounds themselves are accepted (the lookup is
\* issued).
C2_InvalidCoordinatesRejected ==
    \A i \in Invocations :
        tool[i] = "get_forecast" =>
            /\ ~InRange(args[i][1], args[i][2])
                  => /\ Returned(i)
                     /\ result[i] = INVALID_COORDINATES
                     /\ requests[i] = <<>>
                     /\ responses[i] = <<>>
            /\ OnBounds(args[i][1], args[i][2])
                  => /\ requests[i] # <<>>
                     /\ requests[i][1] = PointsUrl(args[i][1], args[i][2])

\* C2: a longitude just above 180, with a valid latitude, has been rejected
C2_Witness ==
    \E i \in Invocations :
        /\ tool[i] = "get_forecast"
        /\ args[i] = <<Float(900), Float(1801)>>
        /\ Returned(i)
        /\ result[i] = INVALID_COORDINATES

\* C3: no invocation of get_alerts or get_forecast ends by raising,
\* whatever the input and whatever the outcome of its fetches.
C3_NoExceptionPropagates == \A i \in Invocations : pc[i] # "raised"

LastResponse(i) == responses[i][Len(responses[i])]

\* the last request of invocation i ended in a network failure, a timeout,
\* a non-success status or an undecodable body
FetchError(i) ==
    /\ responses[i] # <<>>
    /\ Len(requests[i]) = Len(responses[i])
    /\ LastResponse(i).kind \in FailureKinds

\* the last make_nws_request of invocation i returned None
FetchNull(i) ==
    /\ responses[i] # <<>>
    /\ Len(requests[i]) = Len(responses[i])
    /\ \/ LastResponse(i).kind # "ok"
       \/ LastResponse(i).body = None
       \/ requests[i][Len(requests[i])].t # "str"

\* how invocation i failed, of the four ways the specification names
FailureCategory(i) ==
    IF tool[i] = "get_alerts" /\ requests[i] = <<>> THEN "invalid region code"
    ELSE IF tool[i] = "get_forecast" /\ requests[i] = <<>> THEN "invalid coordinates"
    ELSE IF FetchError(i) THEN "unable to fetch"
    ELSE IF /\ tool[i] = "get_alerts" /\ responses[i] # <<>>
            /\ LastResponse(i) = Ok(AlertsBody(PyList(<<>>)))
    THEN "no results found"
    ELSE "none"

FailureText(i) ==
    CASE FailureCategory(i) = "invalid region code" -> INVALID_STATE
      [] FailureCategory(i) = "invalid coordinates" -> INVALID_COORDINATES
      [] FailureCategory(i) = "no results found" -> NO_ALERTS
      [] FailureCategory(i) = "unable to fetch" ->
            IF tool[i] = "get_alerts" THEN UNABLE_ALERTS
            ELSE IF Len(requests[i]) = 1 THEN UNABLE_POINTS
            ELSE UNABLE_FORECAST

IsFeature(f) == HasKey(f, "properties") /\ Get(f, "properties").t = "dict"

\* C6: for a valid state code the one fetch decides the result of get_alerts:
\* UNABLE_ALERTS when the fetch failed or the decoded body (null or an object)
\* has no "features"; NO_ALERTS when "features" is the empty list; and for a
\* non-empty list of features the blocks format_alert makes of them, in the
\* list's order, joined by the separator line.
C6_AlertsOutcomes ==
    \A i \in Invocations :
        (tool[i] = "get_alerts" /\ Ended(i) /\ responses[i] # <<>>) =>
            LET r == responses[i][1]
                features == Get(r.body, "features")
            IN /\ Len(requests[i]) = 1 /\ Len(responses[i]) = 1
               /\ (\/ r.kind # "ok"
                   \/ r.body = None
                   \/ (r.body.t = "dict" /\ ~HasKey(r.body, "features")))
                     => (Returned(i) /\ result[i] = UNABLE_ALERTS)
               /\ (r.kind = "ok" /\ HasKey(r.body, "features")
                      /\ features = PyList(<<>>))
                     => (Returned(i) /\ result[i] = NO_ALERTS)
               /\ (r.kind = "ok" /\ HasKey(r.body, "features")
                      /\ features.t = "list" /\ features.items # <<>>
                      /\ \A k \in DOMAIN features.items : IsFeature(features.items[k]))
                     => /\ Returned(i)
                        /\ result[i] =
                              Join(SEPARATOR,
                                   [k \in DOMAIN features.items |->
                                      FormatAlert(Get(features.items[k], "properties"))])

\* C6: three features, the complete one between two partial ones, formatted
C6_Witness ==
    \E i \in Invocations :
        /\ tool[i] = "get_alerts" /\ Returned(i) /\ responses[i] # <<>>
        /\ responses[i][1] =
              Ok(AlertsBody(PyList(
                  <<Feature(Restrict(AlertPairs, {"event", "instruction"})),
                    Feature(PyDict(AlertPairs)),
                    Feature(Restrict(AlertPairs, {"event", "instruction"}))>>)))
        /\ result[i] \notin {UNABLE_ALERTS, NO_ALERTS, ""}

\* a forecast period: an object with the six fields that are formatted
IsPeriod(p) == p.t = "dict" /\ PeriodKeys \subseteq Keys(p)

\* both fetches of get_forecast succeeded and the forecast holds a list of
\* periods
ForecastFetched(i) ==
    /\ tool[i] = "get_forecast" /\ Ended(i) /\ Len(responses[i]) = 2
    /\ responses[i][1].kind = "ok" /\ responses[i][2].kind = "ok"
    /\ requests[i][2].t = "str"
    /\ HasKey(responses[i][2].body, "properties")
    /\ HasKey(Get(responses[i][2].body, "properties"), "periods")
    /\ Get(Get(responses[i][2].body, "properties"), "periods").t = "list"

PeriodsOf(i) == Get(Get(responses[i][2].body, "properties"), "periods").items

Min(a, b) == IF a < b THEN a ELSE b

\* C7: of n periods get_forecast formats the first min(n, 5), in order: the
\* result is their blocks joined by the separator line, and what comes after
\* the fifth period, well-formed or not, has no part in how the invocation
\* ends.
C7_FirstFivePeriods ==
    \A i \in Invocations :
        ForecastFetched(i) =>
            LET periods == PeriodsOf(i)
                m == Min(Len(periods), 5)
                out == JoinOutcomes([k \in 1..m |-> PeriodBlock(periods[k])])
            IN /\ (\A k \in 1..m : IsPeriod(periods[k]))
                     => /\ Returned(i)
                        /\ result[i] =
                              Join(SEPARATOR, [k \in 1..m |-> FormatPeriod(periods[k])])
               /\ pc[i] = (IF out.kind = "raise" THEN "raised" ELSE "returned")
               /\ result[i] = out.text
               /\ exc[i] = out.exc

\* C7: six periods, the sixth without a name: the first five were formatted
C7_Witness ==
    \E i \in Invocations :
        /\ ForecastFetched(i)
        /\ Len(PeriodsOf(i)) > 5
        /\ \A k \in 1..5 : IsPeriod(PeriodsOf(i)[k])
        /\ PeriodsOf(i)[1] # PeriodsOf(i)[2]
        /\ ~IsPeriod(PeriodsOf(i)[6])
        /\ Returned(i)
        /\ result[i] # ""

\* the line of an alert's block for one field: its value, or the placeholder
\* when the entry lacks the field
FieldLine(props, label, key, placeholder) ==
    label \o ": "
        \o (IF HasKey(props, key) THEN Str(Get(props, key)) ELSE placeholder)
        \o "\n"

\* the block of an alert entry, no line omitted
BlockWithPlaceholders(props) ==
    FieldLine(props, "Event", "event", "Unknown")
    \o FieldLine(props, "Area", "areaDesc", "Unknown")
    \o FieldLine(props, "Severity", "severity", "Unknown")
    \o FieldLine(props, "Description", "description", "No description available")
    \o FieldLine(props, "Instructions", "instruction",
                 "No specific instructions provided")

\* the features of the alerts response of invocation i
FeaturesOf(i) == Get(responses[i][1].body, "features").items

\* every alert entry is formatted, a placeholder in the line of each field it
\* lacks
AlertEntriesWithPlaceholders ==
    \A i \in Invocations :
        (/\ tool[i] = "get_alerts" /\ Ended(i) /\ responses[i] # <<>>
         /\ responses[i][1].kind = "ok"
         /\ HasKey(responses[i][1].body, "features")
         /\ Get(responses[i][1].body, "features").t = "list"
         /\ FeaturesOf(i) # <<>>
         /\ \A k \in DOMAIN FeaturesOf(i) : IsFeature(FeaturesOf(i)[k]))
            => /\ Returned(i)
               /\ result[i] =
                     Join(SEPARATOR,
                          [k \in DOMAIN FeaturesOf(i) |->
                             BlockWithPlaceholders(Get(FeaturesOf(i)[k], "properties"))])

\* every forecast period is formatted, whichever of its fields are missing
ForecastPeriodsNeverError ==
    \A i \in Invocations :
        (ForecastFetched(i) /\ \A k \in DOMAIN PeriodsOf(i) : PeriodsOf(i)[k].t = "dict")
            => Returned(i)

\* C8: formatting never fails on a missing field: every alert entry is
\* formatted with a placeholder in the line of each field it lacks, and every
\* forecast period, whichever of its fields are missing, is formatted too.
C8_MissingFieldsNeverError ==
    AlertEntriesWithPlaceholders /\ ForecastPeriodsNeverError

\* the lookup of invocation i has returned a result that holds a forecast
\* endpoint
LookupGaveEndpoint(i) ==
    /\ responses[i] # <<>>
    /\ responses[i][1].kind = "ok"
    /\ HasKey(responses[i][1].body, "properties")
    /\ HasKey(Get(responses[i][1].body, "properties"), "forecast")

\* the fetches of an invocation are sequential, the forecast fetch follows a
\* lookup that gave an endpoint and targets it, and no fetch is repeated
SequentialFetches(i) ==
    /\ tool[i] = "get_alerts" => Len(requests[i]) =< 1
    /\ tool[i] = "get_forecast" => Len(requests[i]) =< 2
    /\ Len(responses[i]) =< Len(requests[i])
    /\ Len(requests[i]) =< Len(responses[i]) + 1
    /\ (pc[i] \in {"alerts", "points", "forecast"})
          <=> (Len(requests[i]) = Len(responses[i]) + 1)
    /\ Len(requests[i]) = 2 =>
          /\ LookupGaveEndpoint(i)
          /\ requests[i][2] = Get(Get(responses[i][1].body, "properties"), "forecast")
    /\ (responses[i] # <<>> /\ tool[i] = "get_forecast" /\ ~LookupGaveEndpoint(i))
          => (Ended(i) /\ Len(requests[i]) = 1)

\* C10 as stated: the fetches are sequential and never retried, and no URL is
\* fetched twice by an invocation.
C10_EachUrlOnce ==
    \A i \in Invocations :
        /\ SequentialFetches(i)
        /\ Len(requests[i]) = 2 => Str(requests[i][1]) # Str(requests[i][2])

\* C10, amended: the fetches are sequential and never retried; the forecast
\* fetch goes to whatever endpoint the lookup named, which is the URL already
\* fetched only when the lookup's response names that very URL.
C10_SequentialNoRetry ==
    \A i \in Invocations :
        /\ SequentialFetches(i)
        /\ (Len(requests[i]) = 2 /\ Str(requests[i][1]) = Str(requests[i][2]))
              => Str(Get(Get(responses[i][1].body, "properties"), "forecast"))
                     = Str(PointsUrl(args[i][1], args[i][2]))

\* C10: a forecast fetch was issued to the endpoint the lookup named, and the
\* invocation has returned
C10_Witness ==
    \E i \in Invocations :
        /\ tool[i] = "get_forecast" /\ Returned(i)
        /\ Len(requests[i]) = 2 /\ Len(responses[i]) = 2
        /\ requests[i][2] = PyStr(<<"u", "1">>)
        /\ responses[i][1] = Ok(PointsBody(PyStr(<<"u", "1">>)))

\* where a coroutine stands after a run that ended as out, its requests so
\* far being before
AloneAfter(out, awaiting, before) ==
    [pc |-> CASE out.kind = "await" -> awaiting
              [] out.kind = "return" -> "returned"
              [] out.kind = "raise" -> "raised",
     result |-> out.text,
     exc |-> out.exc,
     requests |-> IF out.kind = "await" THEN Append(before, out.url) ELSE before]

\* the invocation of tool t on arguments a run alone, its requests ending as
\* rs in turn
Alone(t, a, rs) ==
    IF t = "none"
    THEN [pc |-> "idle", result |-> "", exc |-> "none", requests |-> <<>>]
    ELSE IF t = "get_alerts"
    THEN LET o1 == GetAlertsCall(a[1])
         IN IF rs = <<>> THEN AloneAfter(o1, "alerts", <<>>)
            ELSE AloneAfter(GetAlertsResume(MakeNwsRequest(o1.url, rs[1])),
                            "alerts", <<o1.url>>)
    ELSE LET o1 == GetForecastCall(a[1], a[2])
             o2 == GetForecastAfterPoints(MakeNwsRequest(o1.url, rs[1]))
         IN IF rs = <<>> THEN AloneAfter(o1, "points", <<>>)
            ELSE IF Len(rs) = 1 THEN AloneAfter(o2, "forecast", <<o1.url>>)
            ELSE AloneAfter(GetForecastAfterForecast(MakeNwsRequest(o2.url, rs[2])),
                            "forecast", <<o1.url, o2.url>>)

\* every invocation stands where it would stand had it run alone
SameAsAlone ==
    \A i \in Invocations :
        [pc |-> pc[i], result |-> result[i], exc |-> exc[i],
         requests |-> requests[i]] = Alone(tool[i], args[i], responses[i])

\* the state of invocation i
Own(i) ==
    <<pc[i], tool[i], args[i], url[i], result[i], exc[i], requests[i], responses[i]>>

\* a step changes the state of one invocation at most, and the log only by
\* appending a line to it
OwnStateOnly ==
    /\ \A i, j \in Invocations : (i # j /\ Own(i)' # Own(i)) => Own(j)' = Own(j)
    /\ \/ log' = log
       \/ Len(log') = Len(log) + 1 /\ SubSeq(log', 1, Len(log)) = log

\* C9: invocations interleaved at their awaits do not interact: each returns
\* (or raises) what it would have alone on its input and its requests'
\* outcomes, and no step of one changes the state of another.
C9_Independent == []SameAsAlone /\ [][OwnStateOnly]_vars

\* C9: an invocation has returned a forecast while another, called with the
\* same coordinates, waits for its forecast fetch
C9_Witness ==
    \E i, j \in Invocations :
        /\ i # j
        /\ tool[i] = "get_forecast" /\ tool[j] = "get_forecast"
        /\ args[i] = args[j]
        /\ pc[i] = "forecast"
        /\ Returned(j) /\ Len(responses[j]) = 2
        /\ result[j] \notin {UNABLE_POINTS, UNABLE_FORECAST, ""}

====
